---- MODULE Spec2Model ----
(***************************************************************************)
(* Model of the Linux SocketCAN interface driver                           *)
(* (libraries/AP_HAL_Linux/CANSocketIface.cpp): the transmit priority      *)
(* queue, the receive queue with software filters and loopback             *)
(* reconciliation, the down latch and the blocking select.                 *)
(*                                                                         *)
(* Threads call the public operations.  The code between two lock          *)
(* acquisitions is one step; code that runs without the lock (the head of  *)
(* send, select, configureFilters) is split at its shared accesses.        *)
(* The kernel socket is the environment: written frames wait in `wire`     *)
(* until the kernel echoes them into `sock_rx`, where frames from the bus  *)
(* and receive errors arrive as well.                                      *)
(***************************************************************************)
EXTENDS Integers, Sequences, FiniteSets, TLC

(***************************************************************************)
(* Bounds of the model.                                                    *)
(***************************************************************************)
NumThreads  == 2        \* threads calling the interface
MaxSends    == 3        \* send calls in a behaviour of Spec
MaxId       == 2        \* CAN ids used by send and by bus frames: 1..MaxId
MaxTime     == 1        \* the monotonic clock runs 0..MaxTime
MaxLive     == 1        \* datagrams the bus delivers (frames and errors)
MaxOverflow == 1        \* would-block results the socket gives
MaxEvals    == 2        \* poll results with POLLERR the flush loop evaluates
IdBits      == 2        \* width of the CAN id field of the id word
BPFrames    == 5        \* frames sent in the back-pressure scenario
RxSends     == 2        \* frames sent in the receive-order scenario
DrainSends  == 3        \* frames sent in the drain scenario
MaxDlc      == 2        \* payload bytes of a frame given to the codec
MaxByte     == 1        \* payload bytes are 0..MaxByte

Threads == 1..NumThreads
Ids     == 1..MaxId

(***************************************************************************)
(* Bit operations on id words.                                             *)
(***************************************************************************)
RECURSIVE BitAnd(_, _)
BitAnd(a, b) ==
    IF a = 0 \/ b = 0 THEN 0
    ELSE ((a % 2) * (b % 2)) + 2 * BitAnd(a \div 2, b \div 2)

RECURSIVE BitOr(_, _)
BitOr(a, b) ==
    IF a = 0 THEN b
    ELSE IF b = 0 THEN a
    ELSE (IF (a % 2) + (b % 2) > 0 THEN 1 ELSE 0) + 2 * BitOr(a \div 2, b \div 2)

RECURSIVE BitXor(_, _)
BitXor(a, b) ==
    IF a = 0 THEN b
    ELSE IF b = 0 THEN a
    ELSE (((a % 2) + (b % 2)) % 2) + 2 * BitXor(a \div 2, b \div 2)

(***************************************************************************)
(* Layout of the id word: the id field, then the error, remote and         *)
(* extended flag bits, in the logical frame and in the wire frame.         *)
(***************************************************************************)
MaskExtID    == 2^IdBits - 1
FlagERR      == 2^IdBits
FlagRTR      == 2^(IdBits + 1)
FlagEFF      == 2^(IdBits + 2)
CAN_EFF_MASK == 2^IdBits - 1
CAN_ERR_FLAG == 2^IdBits
CAN_RTR_FLAG == 2^(IdBits + 1)
CAN_EFF_FLAG == 2^(IdBits + 2)
Words        == 0..(2^(IdBits + 3) - 1)

isExtended(f)                 == BitAnd(f.id, FlagEFF) # 0
isErrorFrame(f)               == BitAnd(f.id, FlagERR) # 0
isRemoteTransmissionRequest(f) == BitAnd(f.id, FlagRTR) # 0

\* A logical frame of the pipeline: the id word and an empty payload.
Frame(id) == [id |-> id, dlc |-> 0, data |-> << >>]

makeSocketCanFrame(uavcan_frame) ==
    LET base == BitAnd(uavcan_frame.id, MaskExtID)
        e    == IF isExtended(uavcan_frame) THEN BitOr(base, CAN_EFF_FLAG) ELSE base
        r    == IF isErrorFrame(uavcan_frame) THEN BitOr(e, CAN_ERR_FLAG) ELSE e
        t    == IF isRemoteTransmissionRequest(uavcan_frame)
                THEN BitOr(r, CAN_RTR_FLAG) ELSE r
    IN  [can_id |-> t, can_dlc |-> uavcan_frame.dlc,
         data |-> [i \in 1..Len(uavcan_frame.data) |->
                     IF i <= uavcan_frame.dlc THEN uavcan_frame.data[i] ELSE 0]]

\* A decoder that loses the error flag.
makeUavcanFrameNoErr(sockcan_frame) ==
    LET base == BitAnd(sockcan_frame.can_id, CAN_EFF_MASK)
        e    == IF BitAnd(sockcan_frame.can_id, CAN_EFF_FLAG) # 0
                THEN BitOr(base, FlagEFF) ELSE base
        t    == IF BitAnd(sockcan_frame.can_id, CAN_RTR_FLAG) # 0
                THEN BitOr(e, FlagRTR) ELSE e
    IN  [id |-> t, dlc |-> sockcan_frame.can_dlc,
         data |-> [i \in 1..Len(sockcan_frame.data) |->
                     IF i <= sockcan_frame.can_dlc THEN sockcan_frame.data[i] ELSE 0]]

makeUavcanFrame(sockcan_frame) ==
    LET base == BitAnd(sockcan_frame.can_id, CAN_EFF_MASK)
        e    == IF BitAnd(sockcan_frame.can_id, CAN_EFF_FLAG) # 0
                THEN BitOr(base, FlagEFF) ELSE base
        r    == IF BitAnd(sockcan_frame.can_id, CAN_ERR_FLAG) # 0
                THEN BitOr(e, FlagERR) ELSE e
        t    == IF BitAnd(sockcan_frame.can_id, CAN_RTR_FLAG) # 0
                THEN BitOr(r, FlagRTR) ELSE r
    IN  [id |-> t, dlc |-> sockcan_frame.can_dlc,
         data |-> [i \in 1..Len(sockcan_frame.data) |->
                     IF i <= sockcan_frame.can_dlc THEN sockcan_frame.data[i] ELSE 0]]

(***************************************************************************)
(* Program constants.                                                      *)
(***************************************************************************)
max_frames_in_socket_tx_queue == 2
CAN_MAX_POLL_ITERATIONS_COUNT == 3

SockErrors == {"ENETDOWN", "ENODEV", "EIO"}
Modes      == {"NormalMode", "SilentMode", "FilteredMode"}
Deadlines  == {0, MaxTime}

\* Results of write(2) on the socket, and what _write makes of them.
WriteOutcomes == {"full", "short", "EAGAIN", "ENOBUFS", "EIO"}

\* A _write that takes every failed write for an error.
WriteBlockIsError(outcome) == IF outcome = "full" THEN 1 ELSE -1

_write(outcome) ==
    CASE outcome = "full"    -> 1
      [] outcome = "EAGAIN"  -> 0
      [] outcome = "ENOBUFS" -> 0
      [] OTHER               -> -1

\* Id words used by filter rules and by frames from the bus: every id, and
\* ids with the extended, remote and error flags.
FilterWords ==
    (0..MaskExtID) \cup {BitOr(1, FlagEFF), BitOr(2, FlagRTR), BitOr(1, FlagERR)}

\* Filter configurations handed to configureFilters (logical id and mask):
\* none, every single rule, and two rules.
FilterConfigs ==
    {<< >>}
    \cup {<< r >> : r \in [id : FilterWords, mask : FilterWords]}
    \cup {<< [id |-> 1, mask |-> MaskExtID], r >> :
            r \in [id : {2, BitOr(1, FlagEFF)}, mask : {MaskExtID, FlagEFF}]}

(***************************************************************************)
(* State.                                                                  *)
(***************************************************************************)
VARIABLES
    \* the interface
    tx_queue,                   \* set of CanTxItem (a priority queue)
    tx_frame_counter,
    rx_queue,                   \* sequence of CanRxItem
    pending_loopback_ids,       \* multiset: id word -> count
    frames_in_socket_tx_queue,
    hw_filters_container,       \* sequence of can_filter
    mode_,
    down,
    stats,
    sem_handle,                 \* TRUE when an event semaphore is attached
    pollfd_events,
    \* threads
    lock,                       \* 0 or the thread holding sem
    pc, op, tx_item, sel, cf,
    \* environment
    now,                        \* AP_HAL::micros64()
    wire,                       \* frames written, not yet echoed
    sock_rx,                    \* datagrams readable from the socket
    nlive,                      \* datagrams the bus has delivered
    sem_signaled,               \* state of the binary semaphore
    \* history
    max_written,                \* the highest CAN id written so far
    lb_sent,                    \* frames written with Loopback requested
    rxlog,                      \* items pushed into rx_queue, in order
    last_pfd,                   \* the last poll result evaluated
    received,                   \* items receive has returned, in order
    codec                       \* a frame taken through the codec, stage by stage

ifaceVars  == << tx_queue, tx_frame_counter, rx_queue, pending_loopback_ids,
                 frames_in_socket_tx_queue, hw_filters_container, mode_, down,
                 stats, sem_handle, pollfd_events >>
threadVars == << lock, pc, op, tx_item, sel, cf >>
envVars    == << now, wire, sock_rx, nlive, sem_signaled >>
histVars   == << max_written, lb_sent, rxlog, last_pfd, received, codec >>
vars       == << ifaceVars, threadVars, envVars, histVars >>

NoItem == [setup |-> FALSE]
NoSel  == [ret |-> "none", need_block |-> FALSE, waited |-> FALSE,
           read_select |-> FALSE, write_select |-> FALSE, blocking_deadline |-> 0,
           in_read |-> FALSE, in_write |-> FALSE, entry_rx |-> FALSE,
           entry_down |-> FALSE, saw_down |-> FALSE]
NoCf   == [configs |-> << >>, i |-> 0, ret |-> "none", isnull |-> FALSE,
           old |-> << >>]

ZeroStats ==
    [tx_requests |-> 0, tx_rejected |-> 0, tx_overflow |-> 0, tx_confirmed |-> 0,
     tx_success |-> 0, tx_timedout |-> 0, rx_received |-> 0, rx_errors |-> 0,
     num_downs |-> 0]

\* The state after construction and a successful init(bitrate, mode), with
\* the filters a completed configureFilters call has left.
InitWith(modes, filters, frames) ==
    /\ tx_queue = {}
    /\ tx_frame_counter = 0
    /\ rx_queue = << >>
    /\ pending_loopback_ids = << >>
    /\ frames_in_socket_tx_queue = 0
    /\ mode_ \in modes
    /\ hw_filters_container \in filters
    /\ mode_ # "FilteredMode" => hw_filters_container = << >>
    /\ down = FALSE
    /\ stats = ZeroStats
    /\ sem_handle = FALSE
    /\ pollfd_events = {}
    /\ lock = 0
    /\ pc = [t \in Threads |-> "idle"]
    /\ op = [t \in Threads |-> "none"]
    /\ tx_item = [t \in Threads |-> NoItem]
    /\ sel = [t \in Threads |-> NoSel]
    /\ cf = [t \in Threads |-> NoCf]
    /\ now = 0
    /\ wire = << >>
    /\ sock_rx = << >>
    /\ nlive = 0
    /\ sem_signaled = FALSE
    /\ max_written = 0
    /\ lb_sent = 0
    /\ rxlog = << >>
    /\ last_pfd = [pollerr |-> FALSE, error |-> "none"]
    /\ received = << >>
    /\ codec \in frames

(***************************************************************************)
(* Helpers of the interface.                                               *)
(***************************************************************************)

\* CanTxItem ordering: a is taken from the queue before b.  Lower CAN id
\* first, then lower sequence index.
TxBefore(a, b) ==
    \/ a.frame.id < b.frame.id
    \/ a.frame.id = b.frame.id /\ a.index < b.index

\* A queue that hands out its items in no order.
TopAnyOrder(q) == q

\* _tx_queue.top(): an item no other item precedes.
Top(q) == {a \in q : \A b \in q : ~TxBefore(b, a)}

\* A ready test that lets one frame too many through.
HasReadyTxOffByOne(q, n) == q # {} /\ n <= max_frames_in_socket_tx_queue

_hasReadyTx(q, n) == q # {} /\ n < max_frames_in_socket_tx_queue

_hasReadyRx(q) == q # << >>

\* A deadline test that drops the frame whose deadline is now.
DeadlineStrict(deadline, curr_time) == deadline > curr_time

\* _pollWrite, line 278: the frame is written unless its deadline has passed.
DeadlineOk(deadline, curr_time) == deadline >= curr_time

\* A loop that pops the frame on every result.
QueueAlwaysPop(q, tx, res) == q \ {tx}

\* A loop that keeps the frame whose write was rejected.
QueueKeepRejected(q, tx, res) == IF res = 1 THEN q \ {tx} ELSE q

\* _pollWrite, lines 288-300: the queue after a write that returned res.
QueueAfterWrite(q, tx, res) == IF res = 0 THEN q ELSE q \ {tx}

\* A select that does not look at the receive queue.
NeedBlockNoRx(read_select, write_select, ready_rx) == ~write_select

\* select, lines 497-501.
NeedBlock(read_select, write_select, ready_rx) ==
    IF read_select /\ ready_rx THEN FALSE ELSE ~write_select

_incrementNumFramesInSocketTxQueue(n) == n + 1

\* A confirmation that does not free the slot.
ConfirmNoDecrement(n) == n

_confirmSentFrame(n) == IF n > 0 THEN n - 1 ELSE n

\* std::unordered_multiset: count, insert, erase(key).
PendingCount(p, id) == IF id \in DOMAIN p THEN p[id] ELSE 0

PendingInsert(p, id) ==
    [k \in DOMAIN p \cup {id} |-> IF k = id THEN PendingCount(p, id) + 1 ELSE p[k]]

PendingErase(p, id) == [k \in DOMAIN p \ {id} |-> p[k]]

_wasInPendingLoopbackSet(p, id) == PendingCount(p, id) > 0

\* One filter matches the wire id.
FilterMatch(can_id, f) == BitXor(BitAnd(can_id, f.can_mask), f.can_id) = 0

_checkHWFilters(filters, can_id) ==
    IF filters # << >>
    THEN \E i \in 1..Len(filters) : FilterMatch(can_id, filters[i])
    ELSE TRUE

\* The can_filter configureFilters stores for one CanFilterConfig.
MakeFilter(fc) ==
    LET id0 == BitAnd(fc.id, MaskExtID)
        m0  == BitAnd(fc.mask, MaskExtID)
        id1 == IF BitAnd(fc.id, FlagEFF) # 0 THEN BitOr(id0, CAN_EFF_FLAG) ELSE id0
        id2 == IF BitAnd(fc.id, FlagRTR) # 0 THEN BitOr(id1, CAN_RTR_FLAG) ELSE id1
        m1  == IF BitAnd(fc.mask, FlagEFF) # 0 THEN BitOr(m0, CAN_EFF_FLAG) ELSE m0
        m2  == IF BitAnd(fc.mask, FlagRTR) # 0 THEN BitOr(m1, CAN_RTR_FLAG) ELSE m1
    IN  [can_id |-> id2, can_mask |-> m2]

\* A down latch that takes every socket error for fatal.
UpdateDownAnyError(d, n, pollerr, error) ==
    IF ~d /\ pollerr
    THEN [down |-> TRUE, num_downs |-> n + 1]
    ELSE [down |-> d, num_downs |-> n]

\* _updateDownStatusFromPollResult: the new (down, num_downs).
UpdateDown(d, n, pollerr, error) ==
    IF ~d /\ pollerr
    THEN [down |-> (error = "ENETDOWN" \/ error = "ENODEV"), num_downs |-> n + 1]
    ELSE [down |-> d, num_downs |-> n]

(***************************************************************************)
(* _pollRead, with _read inlined: up to CAN_MAX_POLL_ITERATIONS_COUNT      *)
(* datagrams are taken from the socket; the loop ends at the first         *)
(* accepted frame, when the socket is empty, on a frame the filters        *)
(* refuse (_read returns 0) and on a receive error.  s is the part of the  *)
(* state the loop works on.                                                *)
(***************************************************************************)
\* A receive queue that takes the new item at its head.
RxPushFront(s, dg, frame, loopback) ==
    LET rx == [frame |-> frame, loopback |-> loopback, seq |-> dg.seq,
               sent_loopback |-> dg.sent_loopback]
    IN  [s EXCEPT !.rx_queue = << rx >> \o @,
                  !.rx_received = @ + 1,
                  !.rxlog = Append(@, rx)]

\* Lines 322-326: the item is pushed.  It keeps the kernel's number of the
\* datagram it was read from and, for an echo, whether the frame echoed was
\* sent with Loopback requested.
RxPush(s, dg, frame, loopback) ==
    LET rx == [frame |-> frame, loopback |-> loopback, seq |-> dg.seq,
               sent_loopback |-> dg.sent_loopback]
    IN  [s EXCEPT !.rx_queue = Append(@, rx),
                  !.rx_received = @ + 1,
                  !.rxlog = Append(@, rx)]

RECURSIVE PollReadLoop(_, _, _)
PollReadLoop(s, filters, iterations_count) ==
    IF iterations_count >= CAN_MAX_POLL_ITERATIONS_COUNT THEN s
    ELSE IF s.sock_rx = << >> THEN s
    ELSE
      LET dg   == Head(s.sock_rx)
          s0   == [s EXCEPT !.sock_rx = Tail(@)]
      IN  IF dg.kind = "error"
          THEN [s0 EXCEPT !.rx_errors = @ + 1]
          ELSE IF ~dg.confirm /\ ~_checkHWFilters(filters, dg.frame.can_id)
          THEN s0
          ELSE
            LET frame == makeUavcanFrame(dg.frame)
            IN  IF dg.confirm
                THEN LET accept == _wasInPendingLoopbackSet(s0.pending, frame.id)
                         s1 == [s0 EXCEPT
                                  !.frames = _confirmSentFrame(@),
                                  !.pending = IF accept THEN PendingErase(@, frame.id)
                                              ELSE @,
                                  !.tx_confirmed = @ + 1]
                     IN  IF accept
                         THEN RxPush(s1, dg, frame, TRUE)
                         ELSE PollReadLoop(s1, filters, iterations_count + 1)
                ELSE RxPush(s0, dg, frame, FALSE)

PollReadState ==
    [sock_rx |-> sock_rx, frames |-> frames_in_socket_tx_queue,
     pending |-> pending_loopback_ids, rx_queue |-> rx_queue, rxlog |-> rxlog,
     rx_received |-> stats.rx_received, rx_errors |-> stats.rx_errors,
     tx_confirmed |-> stats.tx_confirmed]

_pollRead == PollReadLoop(PollReadState, hw_filters_container, 0)

\* stats after a _pollRead that ended in state s.
StatsAfterRead(st, s) ==
    [st EXCEPT !.rx_received = s.rx_received, !.rx_errors = s.rx_errors,
               !.tx_confirmed = s.tx_confirmed]

(***************************************************************************)
(* Steps of the threads.                                                   *)
(***************************************************************************)
SetPc(t, where) == pc' = [pc EXCEPT ![t] = where]

Return(t) ==
    /\ pc' = [pc EXCEPT ![t] = "idle"]
    /\ op' = [op EXCEPT ![t] = "none"]

\* The state _pollRead leaves, stats apart.
ApplyRead(s) ==
    /\ sock_rx' = s.sock_rx
    /\ frames_in_socket_tx_queue' = s.frames
    /\ pending_loopback_ids' = s.pending
    /\ rx_queue' = s.rx_queue
    /\ rxlog' = s.rxlog

Max(a, b) == IF a >= b THEN a ELSE b

\* send, lines 158-168: the item is built before the lock is taken; line
\* 167 reads _tx_frame_counter.  The arguments of the call do not depend on
\* the state, so they are drawn where the item is pushed.
SendPrep(t, maxsends) ==
    /\ pc[t] = "idle"
    /\ stats.tx_requests + Cardinality({u \in Threads : pc[u] = "send"}) < maxsends
    /\ tx_item' = [tx_item EXCEPT ![t] = [setup |-> TRUE, index |-> tx_frame_counter]]
    /\ SetPc(t, "send")
    /\ op' = [op EXCEPT ![t] = "send"]
    /\ UNCHANGED << ifaceVars, lock, sel, cf, envVars, histVars >>

\* send, lines 169-173: under the lock, push the item and run _pollRead.
\* The thread keeps the lock for _pollWrite.
SendLocked(t, ids, deadlines) ==
    /\ pc[t] = "send"
    /\ lock = 0
    /\ \E id \in ids, dl \in deadlines, lb \in BOOLEAN :
         LET item == [frame |-> Frame(id), loopback |-> lb,
                      index |-> tx_item[t].index, deadline |-> dl,
                      uid |-> stats.tx_requests + 1]
             s    == _pollRead
         IN  /\ tx_queue' = tx_queue \cup {item}
             /\ tx_frame_counter' = tx_frame_counter + 1
             /\ stats' = StatsAfterRead([stats EXCEPT !.tx_requests = @ + 1], s)
             /\ ApplyRead(s)
    /\ lock' = t
    /\ SetPc(t, "pw")
    /\ tx_item' = [tx_item EXCEPT ![t] = NoItem]
    /\ UNCHANGED << hw_filters_container, mode_, down, sem_handle, pollfd_events,
                    op, sel, cf, now, wire, nlive, sem_signaled, max_written,
                    lb_sent, last_pfd, received, codec >>

\* What follows the loop of _pollWrite: send returns; flush_tx tests its
\* loop condition.
PollWriteExit(t) ==
    IF op[t] = "flush" /\ tx_queue # {} /\ ~down
    THEN /\ SetPc(t, "fl")
         /\ UNCHANGED << lock, op >>
    ELSE /\ Return(t)
         /\ lock' = 0

\* What the socket holds of a written frame until the kernel echoes it: the
\* wire frame, and whether send asked for Loopback.
WireEntry(tx) == [frame |-> makeSocketCanFrame(tx.frame), loopback |-> tx.loopback]

\* One iteration of the loop of _pollWrite, lines 271-301.
PollWriteStep(t, outcomes, maxoverflow) ==
    /\ pc[t] = "pw"
    /\ lock = t
    /\ IF ~_hasReadyTx(tx_queue, frames_in_socket_tx_queue)
       THEN /\ PollWriteExit(t)
            /\ UNCHANGED << ifaceVars, envVars, histVars >>
       ELSE \E tx \in Top(tx_queue) :
              LET curr_time == now IN
              IF DeadlineOk(tx.deadline, curr_time)
              THEN \E o \in outcomes :
                     LET res == _write(o) IN
                     IF res = 1
                     THEN /\ frames_in_socket_tx_queue' =
                               _incrementNumFramesInSocketTxQueue(frames_in_socket_tx_queue)
                          /\ pending_loopback_ids' =
                               IF tx.loopback
                               THEN PendingInsert(pending_loopback_ids, tx.frame.id)
                               ELSE pending_loopback_ids
                          /\ stats' = [stats EXCEPT !.tx_success = @ + 1]
                          /\ wire' = Append(wire, WireEntry(tx))
                          /\ tx_queue' = QueueAfterWrite(tx_queue, tx, res)
                          /\ max_written' = Max(max_written, tx.frame.id)
                          /\ lb_sent' = IF tx.loopback THEN lb_sent + 1 ELSE lb_sent
                          /\ UNCHANGED << lock, pc, op >>
                     ELSE IF res = 0
                     THEN /\ stats.tx_overflow < maxoverflow
                          /\ stats' = [stats EXCEPT !.tx_overflow = @ + 1]
                          /\ PollWriteExit(t)
                          /\ tx_queue' = QueueAfterWrite(tx_queue, tx, res)
                          /\ UNCHANGED << frames_in_socket_tx_queue,
                                          pending_loopback_ids, wire, max_written,
                                          lb_sent >>
                     ELSE /\ stats' = [stats EXCEPT !.tx_rejected = @ + 1]
                          /\ tx_queue' = QueueAfterWrite(tx_queue, tx, res)
                          /\ UNCHANGED << lock, pc, op, frames_in_socket_tx_queue,
                                          pending_loopback_ids, wire, max_written,
                                          lb_sent >>
              ELSE /\ stats' = [stats EXCEPT !.tx_timedout = @ + 1]
                   /\ tx_queue' = tx_queue \ {tx}
                   /\ UNCHANGED << lock, pc, op, frames_in_socket_tx_queue,
                                   pending_loopback_ids, wire, max_written,
                                   lb_sent >>
    /\ UNCHANGED << tx_frame_counter, rx_queue, hw_filters_container, mode_, down,
                    sem_handle, pollfd_events, tx_item, sel, cf, now, sock_rx,
                    nlive, sem_signaled, rxlog, last_pfd, received, codec >>

\* receive, lines 178-199.
Receive(t) ==
    /\ pc[t] = "idle"
    /\ lock = 0
    /\ LET s == IF rx_queue = << >> THEN _pollRead ELSE PollReadState
       IN  /\ stats' = StatsAfterRead(stats, s)
           /\ sock_rx' = s.sock_rx
           /\ frames_in_socket_tx_queue' = s.frames
           /\ pending_loopback_ids' = s.pending
           /\ rxlog' = s.rxlog
           /\ IF s.rx_queue = << >>
              THEN /\ rx_queue' = s.rx_queue
                   /\ UNCHANGED << sem_signaled, received >>
              ELSE /\ rx_queue' = Tail(s.rx_queue)
                   /\ received' = Append(received, Head(s.rx_queue))
                   /\ sem_signaled' = IF sem_handle THEN TRUE ELSE sem_signaled
    /\ UNCHANGED << tx_queue, tx_frame_counter, hw_filters_container, mode_, down,
                    sem_handle, pollfd_events, threadVars, now, wire, nlive,
                    max_written, lb_sent, last_pfd, codec >>

\* flush_tx, line 405: take the lock.
FlushTx(t) ==
    /\ pc[t] = "idle"
    /\ lock = 0
    /\ lock' = t
    /\ SetPc(t, "fl")
    /\ op' = [op EXCEPT ![t] = "flush"]
    /\ UNCHANGED << ifaceVars, tx_item, sel, cf, envVars, histVars >>

\* flush_tx, lines 407-408: evaluate the poll result, then _poll(true, true)
\* runs _pollRead and goes on to _pollWrite.
FlushIter(t, maxevals) ==
    /\ pc[t] = "fl"
    /\ lock = t
    /\ \E pollerr \in BOOLEAN, error \in SockErrors :
         /\ pollerr => stats.num_downs < maxevals
         /\ ~pollerr => error = "EIO"
         /\ LET u == UpdateDown(down, stats.num_downs, pollerr, error)
                s == _pollRead
            IN  /\ down' = u.down
                /\ stats' = StatsAfterRead([stats EXCEPT !.num_downs = u.num_downs], s)
                /\ ApplyRead(s)
                /\ last_pfd' = [pollerr |-> pollerr,
                                error |-> IF pollerr THEN error ELSE "none"]
    /\ SetPc(t, "pw")
    /\ UNCHANGED << tx_queue, tx_frame_counter, hw_filters_container, mode_,
                    sem_handle, pollfd_events, lock, op, tx_item, sel, cf, now,
                    wire, nlive, sem_signaled, max_written, lb_sent, received,
                    codec >>

\* clear_rx, lines 412-418.
ClearRx(t) ==
    /\ pc[t] = "idle"
    /\ lock = 0
    /\ rx_queue' = << >>
    /\ UNCHANGED << tx_queue, tx_frame_counter, pending_loopback_ids,
                    frames_in_socket_tx_queue, hw_filters_container, mode_, down,
                    stats, sem_handle, pollfd_events, threadVars, envVars, histVars >>

\* set_event_handle, lines 537-541.
SetEventHandle(t) ==
    /\ pc[t] = "idle"
    /\ ~sem_handle
    /\ sem_handle' = TRUE
    /\ UNCHANGED << tx_queue, tx_frame_counter, rx_queue, pending_loopback_ids,
                    frames_in_socket_tx_queue, hw_filters_container, mode_, down,
                    stats, pollfd_events, threadVars, envVars, histVars >>

(***************************************************************************)
(* select, lines 493-535.  It runs without the lock, except inside         *)
(* _hasReadyRx and _hasReadyTx.                                            *)
(***************************************************************************)

\* Lines 497-503: need_block.
SelectStart(t) ==
    /\ pc[t] = "idle"
    /\ \E read_select \in BOOLEAN, write_select \in BOOLEAN,
          blocking_deadline \in Deadlines :
         /\ read_select => lock = 0
         /\ LET need_block == NeedBlock(read_select, write_select,
                                        _hasReadyRx(rx_queue))
            IN  /\ sel' = [sel EXCEPT ![t] =
                             [ret |-> "none", need_block |-> need_block,
                              waited |-> FALSE,
                              read_select |-> read_select,
                              write_select |-> write_select,
                              blocking_deadline |-> blocking_deadline,
                              in_read |-> read_select, in_write |-> write_select,
                              entry_rx |-> _hasReadyRx(rx_queue),
                              entry_down |-> down, saw_down |-> FALSE]]
                /\ SetPc(t, IF need_block THEN "sel_check" ELSE "sel_out")
    /\ op' = [op EXCEPT ![t] = "select"]
    /\ UNCHANGED << ifaceVars, lock, tx_item, cf, envVars, histVars >>

\* Lines 504-514: return false when down, else prime the poll descriptor.
SelectCheck(t) ==
    /\ pc[t] = "sel_check"
    /\ IF down
       THEN /\ sel' = [sel EXCEPT ![t].ret = "false", ![t].saw_down = TRUE]
            /\ Return(t)
            /\ UNCHANGED pollfd_events
       ELSE /\ lock = 0
            /\ pollfd_events' =
                 pollfd_events \cup {"POLLIN"} \cup
                 (IF _hasReadyTx(tx_queue, frames_in_socket_tx_queue)
                     /\ sel[t].write_select
                  THEN {"POLLOUT"} ELSE {})
            /\ SetPc(t, "sel_wait")
            /\ UNCHANGED << sel, op >>
    /\ UNCHANGED << tx_queue, tx_frame_counter, rx_queue, pending_loopback_ids,
                    frames_in_socket_tx_queue, hw_filters_container, mode_, down,
                    stats, sem_handle, lock, tx_item, cf, envVars, histVars >>

\* Lines 515-518: wait on the event semaphore when one is attached and the
\* deadline lies ahead.
SelectWait(t) ==
    /\ pc[t] = "sel_wait"
    /\ IF sem_handle /\ sel[t].blocking_deadline > now
       THEN /\ sel' = [sel EXCEPT ![t].waited = TRUE]
            /\ SetPc(t, "sel_blocked")
       ELSE /\ SetPc(t, "sel_out")
            /\ UNCHANGED sel
    /\ UNCHANGED << ifaceVars, lock, op, tx_item, cf, envVars, histVars >>

\* BinarySemaphore::wait returns: signalled, or the timeout has elapsed.
SelectWake(t) ==
    /\ pc[t] = "sel_blocked"
    /\ sem_signaled \/ now >= sel[t].blocking_deadline
    /\ sem_signaled' = FALSE
    /\ SetPc(t, "sel_out")
    /\ UNCHANGED << ifaceVars, lock, op, tx_item, sel, cf, now, wire, sock_rx,
                    nlive, histVars >>

\* Lines 521-534: the output masks; return true.
SelectOut(t) ==
    /\ pc[t] = "sel_out"
    /\ lock = 0
    /\ sel' = [sel EXCEPT ![t].write_select = ~down,
                          ![t].read_select = _hasReadyRx(rx_queue),
                          ![t].ret = "true"]
    /\ Return(t)
    /\ UNCHANGED << ifaceVars, lock, tx_item, cf, envVars, histVars >>

(***************************************************************************)
(* configureFilters, lines 225-253.  It runs without the lock.  One call   *)
(* runs at a time.                                                         *)
(***************************************************************************)

\* A check that installs rules in every mode.
CanConfigureAnyMode(isnull, mode) == ~isnull

\* Line 228: the rules may be installed.
CanConfigure(isnull, mode) == ~(isnull \/ mode # "FilteredMode")

\* Lines 228-232: the checks, then clear() and resize().  cf keeps whether
\* the rule vector was null and, while the call runs, the rules it found.
ConfigureFilters(t, filter_configs) ==
    /\ pc[t] = "idle"
    /\ \A u \in Threads : pc[u] # "cf"
    /\ \E isnull \in BOOLEAN, configs \in filter_configs :
         IF ~CanConfigure(isnull, mode_)
         THEN /\ cf' = [cf EXCEPT ![t] = [NoCf EXCEPT !.ret = "false",
                                                      !.isnull = isnull]]
              /\ UNCHANGED << hw_filters_container, pc >>
         ELSE /\ hw_filters_container' =
                   [i \in 1..Len(configs) |-> [can_id |-> 0, can_mask |-> 0]]
              /\ IF Len(configs) = 0
                 THEN /\ cf' = [cf EXCEPT ![t] = [NoCf EXCEPT !.ret = "true"]]
                      /\ UNCHANGED pc
                 ELSE /\ cf' = [cf EXCEPT ![t] =
                                  [configs |-> configs, i |-> 1, ret |-> "none",
                                   isnull |-> FALSE,
                                   old |-> hw_filters_container]]
                      /\ SetPc(t, "cf")
    /\ UNCHANGED << tx_queue, tx_frame_counter, rx_queue, pending_loopback_ids,
                    frames_in_socket_tx_queue, mode_, down, stats, sem_handle,
                    pollfd_events, lock, op, tx_item, sel, envVars, histVars >>

\* Lines 234-250: one iteration of the loop.
ConfigureFiltersFill(t) ==
    /\ pc[t] = "cf"
    /\ LET i == cf[t].i IN
       /\ hw_filters_container' =
            [hw_filters_container EXCEPT ![i] = MakeFilter(cf[t].configs[i])]
       /\ IF i = Len(cf[t].configs)
          THEN /\ cf' = [cf EXCEPT ![t] = [NoCf EXCEPT !.ret = "true"]]
               /\ SetPc(t, "idle")
          ELSE /\ cf' = [cf EXCEPT ![t].i = i + 1]
               /\ UNCHANGED pc
    /\ UNCHANGED << tx_queue, tx_frame_counter, rx_queue, pending_loopback_ids,
                    frames_in_socket_tx_queue, mode_, down, stats, sem_handle,
                    pollfd_events, lock, op, tx_item, sel, envVars, histVars >>

(***************************************************************************)
(* The environment: the clock, the kernel and the bus.                     *)
(***************************************************************************)
Tick ==
    /\ now < MaxTime
    /\ now' = now + 1
    /\ UNCHANGED << ifaceVars, threadVars, wire, sock_rx, nlive, sem_signaled,
                    histVars >>

\* The datagrams the kernel has queued on the socket so far: those from the
\* bus and the echoes of the frames written.
Delivered == nlive + (stats.tx_success - Len(wire))

\* The kernel echoes the oldest written frame to the socket (MSG_CONFIRM).
Echo ==
    /\ wire # << >>
    /\ sock_rx' = Append(sock_rx, [kind |-> "frame", frame |-> Head(wire).frame,
                                   confirm |-> TRUE, seq |-> Delivered + 1,
                                   sent_loopback |-> Head(wire).loopback])
    /\ wire' = Tail(wire)
    /\ UNCHANGED << ifaceVars, threadVars, now, nlive, sem_signaled, histVars >>

\* A frame from another node arrives.
BusFrame(ids) ==
    /\ nlive < MaxLive
    /\ \E id \in ids :
         sock_rx' = Append(sock_rx,
                           [kind |-> "frame", frame |-> makeSocketCanFrame(Frame(id)),
                            confirm |-> FALSE, seq |-> Delivered + 1,
                            sent_loopback |-> FALSE])
    /\ nlive' = nlive + 1
    /\ UNCHANGED << ifaceVars, threadVars, now, wire, sem_signaled, histVars >>

\* recvmsg will fail once.
BusError ==
    /\ nlive < MaxLive
    /\ sock_rx' = Append(sock_rx,
                         [kind |-> "error", frame |-> makeSocketCanFrame(Frame(0)),
                          confirm |-> FALSE, seq |-> Delivered + 1,
                          sent_loopback |-> FALSE])
    /\ nlive' = nlive + 1
    /\ UNCHANGED << ifaceVars, threadVars, now, wire, sem_signaled, histVars >>

(***************************************************************************)
(* The transmit and receive pipeline: send, receive, flush_tx and clear_rx *)
(* called by the threads, over a socket that may accept, refuse or reject  *)
(* each write.                                                             *)
(***************************************************************************)
Init == InitWith({"NormalMode"}, {<< >>}, {<< >>})

Next ==
    \/ \E t \in Threads :
         \/ SendPrep(t, MaxSends)
         \/ SendLocked(t, Ids, Deadlines)
         \/ PollWriteStep(t, WriteOutcomes, MaxOverflow)
         \/ Receive(t)
         \/ FlushTx(t)
         \/ FlushIter(t, 0)
         \/ ClearRx(t)
    \/ Tick
    \/ Echo

Spec == Init /\ [][Next]_vars

(***************************************************************************)
(* Properties of the pipeline.                                             *)
(***************************************************************************)
AllIdle == \A t \in Threads : pc[t] = "idle"

\* This step takes tx from the queue.
Leaves(tx) == tx \in tx_queue /\ tx \notin tx_queue'

\* This step writes tx to the socket.
WrittenNow(tx) ==
    /\ Leaves(tx)
    /\ stats'.tx_success = stats.tx_success + 1
    /\ wire' = Append(wire, WireEntry(tx))

\* C1 as stated: a frame is written only when no frame with a higher CAN id
\* has been written before it, whenever the two were enqueued.
C1_LowerIdAlwaysFirst ==
    [][\A tx \in tx_queue : WrittenNow(tx) => tx.frame.id >= max_written]_vars

\* C1 amended: every frame poll-write writes has the lowest CAN id of the
\* frames that are in tx_queue at that moment, so of two frames queued
\* together the one with the lower id is offered first.
C1_LowestQueuedIdFirst ==
    [][\A tx \in tx_queue :
         WrittenNow(tx) => \A a \in tx_queue : a.frame.id >= tx.frame.id]_vars

\* The frame enqueued second, with the lower id, has been written while the
\* frame enqueued first still waits.
C1_Witness ==
    /\ stats.tx_success >= 1
    /\ max_written = 1
    /\ \E b \in tx_queue : b.frame.id = 2 /\ b.uid = 1

LoopbackDelivered == Cardinality({i \in 1..Len(rxlog) : rxlog[i].loopback})

Quiescent ==
    /\ AllIdle
    /\ tx_queue = {}
    /\ wire = << >>
    /\ sock_rx = << >>

\* C2: once everything sent has been written, echoed and read, one RxItem
\* with the loopback flag has been delivered for each frame written with
\* Loopback requested, and pending_loopback_ids is empty.
C2_OneLoopbackPerFrame ==
    Quiescent => /\ LoopbackDelivered = lb_sent
                 /\ DOMAIN pending_loopback_ids = {}

\* C3: frames_in_socket_tx_queue stays within
\* [0, max_frames_in_socket_tx_queue].
C3_FramesInRange ==
    /\ frames_in_socket_tx_queue >= 0
    /\ frames_in_socket_tx_queue <= max_frames_in_socket_tx_queue

\* The socket queue is full while a frame still waits in tx_queue.
C3_Witness ==
    /\ frames_in_socket_tx_queue = max_frames_in_socket_tx_queue
    /\ tx_queue # {}

Outcomes(st) == << st.tx_success, st.tx_rejected, st.tx_timedout >>

\* C4: a step takes at most one item from tx_queue, and only as a successful
\* write, a rejected write or an expired deadline, exactly one of which it
\* counts; a would-block write leaves the queue as it is; every write takes
\* the written item from the queue; and an item pushed is new, so no item
\* leaves or is written twice.
C4_LeavesOnce ==
    [][/\ Cardinality(tx_queue \ tx_queue') <= 1
       /\ \A tx \in tx_queue :
            Leaves(tx) =>
              \/ /\ WrittenNow(tx)
                 /\ Outcomes(stats') = << stats.tx_success + 1, stats.tx_rejected,
                                          stats.tx_timedout >>
              \/ /\ wire' = wire
                 /\ Outcomes(stats') = << stats.tx_success, stats.tx_rejected + 1,
                                          stats.tx_timedout >>
              \/ /\ wire' = wire
                 /\ Outcomes(stats') = << stats.tx_success, stats.tx_rejected,
                                          stats.tx_timedout + 1 >>
       /\ Outcomes(stats') # Outcomes(stats) => \E tx \in tx_queue : Leaves(tx)
       /\ Len(wire') > Len(wire) => \E tx \in tx_queue : WrittenNow(tx)
       /\ stats'.tx_overflow # stats.tx_overflow =>
            tx_queue' = tx_queue /\ wire' = wire /\ Outcomes(stats') = Outcomes(stats)
       /\ \A tx \in tx_queue' \ tx_queue :
            /\ tx.uid = stats'.tx_requests
            /\ stats'.tx_requests = stats.tx_requests + 1
            /\ \A b \in tx_queue : b.uid < tx.uid]_vars

\* One frame written, one rejected, and one left in the queue by a
\* would-block write.
C4_Witness ==
    /\ stats.tx_success >= 1
    /\ stats.tx_rejected >= 1
    /\ stats.tx_overflow >= 1
    /\ tx_queue # {}

\* C5: an item taken from the queue with its deadline before the clock is
\* not written and adds exactly one to tx_timedout; an item whose deadline
\* is not before the clock never adds to tx_timedout.
C5_DeadlineExpiry ==
    [][/\ \A tx \in tx_queue :
            Leaves(tx) =>
              IF tx.deadline < now
              THEN /\ stats'.tx_timedout = stats.tx_timedout + 1
                   /\ stats'.tx_success = stats.tx_success
                   /\ wire' = wire
              ELSE stats'.tx_timedout = stats.tx_timedout
       /\ stats'.tx_timedout # stats.tx_timedout =>
            \E tx \in tx_queue : Leaves(tx) /\ tx.deadline < now
       /\ Len(wire') > Len(wire) =>
            \E tx \in tx_queue : WrittenNow(tx) /\ tx.deadline >= now]_vars

\* One frame sent with a deadline that passed: nothing written, one
\* timeout counted, the queue empty.
C5_Witness ==
    /\ stats.tx_requests = 1
    /\ stats.tx_timedout = 1
    /\ stats.tx_success = 0
    /\ wire = << >>
    /\ tx_queue = {}

(***************************************************************************)
(* Back-pressure: BPFrames frames with deadlines ahead are sent to a       *)
(* socket that accepts writes until max_frames_in_socket_tx_queue have     *)
(* succeeded and returns would-block for every later write.  One thread    *)
(* makes the calls, one after the other.                                   *)
(***************************************************************************)
BPOutcomes ==
    IF stats.tx_success < max_frames_in_socket_tx_queue
    THEN {"full"}
    ELSE {"EAGAIN", "ENOBUFS"}

NextBP ==
    \/ \E t \in {1} :
         \/ SendPrep(t, BPFrames)
         \/ SendLocked(t, Ids, {MaxTime})
         \/ PollWriteStep(t, BPOutcomes, BPFrames)
         \/ Receive(t)
         \/ FlushTx(t)
         \/ FlushIter(t, 0)
    \/ Echo

SpecBP == Init /\ [][NextBP]_vars

BPDone == AllIdle /\ stats.tx_requests = BPFrames

\* C7: in the back-pressure scenario exactly
\* max_frames_in_socket_tx_queue frames are written and the others stay in
\* tx_queue once all BPFrames have been sent, however often the socket is
\* polled afterwards; no frame is rejected or timed out; and every write
\* attempted after the accepted ones adds to tx_overflow and to nothing
\* else.
C7_BackPressure ==
    /\ stats.tx_success <= max_frames_in_socket_tx_queue
    /\ stats.tx_rejected = 0 /\ stats.tx_timedout = 0
    /\ Cardinality(tx_queue) + stats.tx_success = stats.tx_requests
    /\ stats.tx_overflow > 0 => stats.tx_success = max_frames_in_socket_tx_queue
    /\ BPDone => /\ stats.tx_success = max_frames_in_socket_tx_queue
                 /\ Cardinality(tx_queue) = BPFrames - max_frames_in_socket_tx_queue

\* All frames sent, the third write attempted and refused, three retained.
C7_Witness ==
    /\ BPDone
    /\ stats.tx_overflow >= 1
    /\ stats.tx_success = 2
    /\ Cardinality(tx_queue) = 3

(***************************************************************************)
(* Health and select: one thread calls set_event_handle and select while   *)
(* another calls flush_tx, receive and clear_rx; the bus delivers frames   *)
(* and errors and the flush loop sees poll results with POLLERR.           *)
(***************************************************************************)
NextSel ==
    \/ \E t \in {1} :
         \/ SetEventHandle(t)
         \/ SelectStart(t)
         \/ SelectCheck(t)
         \/ SelectWait(t)
         \/ SelectWake(t)
         \/ SelectOut(t)
    \/ \E t \in {2} :
         \/ FlushTx(t)
         \/ FlushIter(t, MaxEvals)
         \/ PollWriteStep(t, WriteOutcomes, MaxOverflow)
         \/ Receive(t)
         \/ ClearRx(t)
    \/ Tick
    \/ BusFrame(Ids)
    \/ BusError

SpecSel == Init /\ [][NextSel]_vars

Fatal == {"ENETDOWN", "ENODEV"}

\* C8: down is never cleared; it is set only by a step that evaluates a poll
\* result with POLLERR whose socket error is ENETDOWN or ENODEV; a poll
\* result whose error is another one leaves down as it was.
C8_DownLatch ==
    [][/\ down => down'
       /\ ~down /\ down' =>
            /\ last_pfd'.pollerr
            /\ last_pfd'.error \in Fatal
            /\ \E t \in Threads : pc[t] = "fl" /\ pc'[t] = "pw"
       /\ (\E t \in Threads : pc[t] = "fl" /\ pc'[t] = "pw")
            /\ last_pfd'.error \notin Fatal => down' = down]_vars

\* A first socket error that is not fatal has left down false, a second one,
\* fatal, has latched it, and the thread has gone on.
C8_Witness ==
    /\ down
    /\ stats.num_downs = 2
    /\ last_pfd.error \in Fatal
    /\ AllIdle

\* The claim's condition for blocking, from the arguments of the call and
\* the receive queue at its start.
BlockingRequired(r) == ~r.in_write /\ ~(r.in_read /\ r.entry_rx)

\* C9: a select call that has returned has returned false exactly when
\* blocking was required and it found the interface down; it has then not
\* waited on the semaphore; a call that began with the interface down has
\* not waited either and has returned false if blocking was required; and a
\* call that needs no blocking does not wait.
C9_SelectReturn ==
    \A t \in Threads :
      LET r == sel[t] IN
      /\ r.ret # "none" => (r.ret = "false" <=> (BlockingRequired(r) /\ r.saw_down))
      /\ r.ret = "false" => down /\ ~r.waited
      /\ r.ret # "none" /\ r.entry_down /\ BlockingRequired(r) => r.ret = "false"
      /\ r.entry_down => ~r.waited
      /\ ~BlockingRequired(r) => ~r.waited

\* A select asked to read, with a semaphore attached and its deadline
\* ahead, has returned false.
C9_Witness ==
    \E t \in Threads :
      /\ sel[t].ret = "false"
      /\ sel[t].in_read
      /\ sem_handle
      /\ sel[t].blocking_deadline > now

\* C10: a step that pushes a frame into rx_queue while an event semaphore is
\* attached leaves the semaphore signalled.
C10_RxPushSignals ==
    [][Len(rxlog') > Len(rxlog) /\ sem_handle => sem_signaled']_vars

(***************************************************************************)
(* The software filters: configureFilters installs rules while frames      *)
(* with any id word arrive from the bus and are read by receive.           *)
(***************************************************************************)
InitFilter == InitWith(Modes, {<< >>}, {<< >>})

NextFilter ==
    \/ \E t \in Threads :
         \/ ConfigureFilters(t, FilterConfigs)
         \/ ConfigureFiltersFill(t)
         \/ Receive(t)
    \/ BusFrame(FilterWords)

SpecFilter == InitFilter /\ [][NextFilter]_vars

\* The acceptance C6 states for the wire id f under the installed rules.
ClaimedAccept(filters, f) ==
    \/ filters = << >>
    \/ \E i \in 1..Len(filters) :
         BitAnd(f, filters[i].can_mask) = BitAnd(filters[i].can_id, filters[i].can_mask)

\* C6: a frame from the bus that is read while no configureFilters call is
\* under way is pushed into rx_queue iff no rule is installed or, for an
\* installed rule r, (f.id & r.mask) = (r.id & r.mask).
C6_FilterAccepts ==
    [][(/\ \A t \in Threads : pc[t] # "cf"
        /\ sock_rx # << >>
        /\ sock_rx' = Tail(sock_rx)
        /\ ~Head(sock_rx).confirm)
       => (Len(rxlog') > Len(rxlog)
             <=> ClaimedAccept(hw_filters_container, Head(sock_rx).frame.can_id))]_vars

(***************************************************************************)
(* Receive order: one thread sends frames, with and without Loopback, to a *)
(* socket that accepts them; another calls receive, flush_tx and clear_rx; *)
(* the kernel queues the echoes and frames from the bus on the socket.     *)
(***************************************************************************)
NextRx ==
    \/ \E t \in {1} :
         \/ SendPrep(t, RxSends)
         \/ SendLocked(t, Ids, {MaxTime})
         \/ PollWriteStep(t, {"full"}, 0)
    \/ \E t \in {2} :
         \/ Receive(t)
         \/ FlushTx(t)
         \/ FlushIter(t, 0)
         \/ PollWriteStep(t, {"full"}, 0)
         \/ ClearRx(t)
    \/ Echo
    \/ BusFrame(Ids)

SpecRx == Init /\ [][NextRx]_vars

\* C11: the items receive has returned are in the order in which the kernel
\* queued their datagrams on the socket, none of them twice; each is an item
\* poll-read pushed, unaltered; and poll-read pushes in that order too.
C11_ReceiveInKernelOrder ==
    /\ \A i, j \in 1..Len(received) :
         i < j => received[i].seq < received[j].seq
    /\ \A i \in 1..Len(received) :
         \E k \in 1..Len(rxlog) : rxlog[k] = received[i]
    /\ \A i, j \in 1..Len(rxlog) : i < j => rxlog[i].seq < rxlog[j].seq

\* receive has returned an echo, a frame from the bus and another echo,
\* which were queued on the socket in that order.
C11_Witness ==
    /\ Len(received) = 3
    /\ received[1].loopback /\ ~received[2].loopback /\ received[3].loopback
    /\ received[1].seq = 1 /\ received[2].seq = 2 /\ received[3].seq = 3

(***************************************************************************)
(* The codec: a logical frame is encoded by makeSocketCanFrame and the     *)
(* wire frame decoded by makeUavcanFrame.  codec holds the frame, then     *)
(* the wire frame, then the decoded frame.                                 *)
(***************************************************************************)
CodecFrames == [id : Words, dlc : 0..MaxDlc, data : [1..MaxDlc -> 0..MaxByte]]

InitCodec == InitWith({"NormalMode"}, {<< >>}, {<< f >> : f \in CodecFrames})

Encode ==
    /\ Len(codec) = 1
    /\ codec' = Append(codec, makeSocketCanFrame(codec[1]))
    /\ UNCHANGED << ifaceVars, threadVars, envVars, max_written, lb_sent, rxlog,
                    last_pfd, received >>

Decode ==
    /\ Len(codec) = 2
    /\ codec' = Append(codec, makeUavcanFrame(codec[2]))
    /\ UNCHANGED << ifaceVars, threadVars, envVars, max_written, lb_sent, rxlog,
                    last_pfd, received >>

NextCodec == Encode \/ Decode

SpecCodec == InitCodec /\ [][NextCodec]_vars

\* C12: the frame decoded from the encoding of a logical frame f has the id
\* of f, its extended, remote and error flags, its DLC and its first DLC
\* payload bytes.
C12_RoundTrip ==
    Len(codec) = 3 =>
      LET f == codec[1]
          g == codec[3]
      IN  /\ g.id = f.id
          /\ isExtended(g) = isExtended(f)
          /\ isRemoteTransmissionRequest(g) = isRemoteTransmissionRequest(f)
          /\ isErrorFrame(g) = isErrorFrame(f)
          /\ g.dlc = f.dlc
          /\ \A i \in 1..f.dlc : g.data[i] = f.data[i]

\* A frame with the highest id, all three flags, one payload byte and a
\* byte behind it that is not payload has gone through the codec.
C12_Witness ==
    /\ Len(codec) = 3
    /\ BitAnd(codec[1].id, MaskExtID) = MaskExtID
    /\ isExtended(codec[1]) /\ isRemoteTransmissionRequest(codec[1])
    /\ isErrorFrame(codec[1])
    /\ codec[1].dlc = 1
    /\ codec[1].data[1] = 1 /\ codec[3].data[1] = 1
    /\ codec[1].data[2] = 1 /\ codec[3].data[2] = 0

\* C13: a configureFilters call returns false exactly when the rule vector
\* is null or the mode is not FilteredMode, and then leaves the installed
\* rules, and so the acceptance of every frame, as they were; a call that
\* installs rules or has returned true was made in FilteredMode with a rule
\* vector.
C13_ConfigureOnlyFiltered ==
    [][\A t \in Threads :
         /\ pc[t] = "idle" /\ cf'[t] # cf[t] =>
              /\ cf'[t].ret = "false" <=>
                   (cf'[t].isnull \/ mode_ # "FilteredMode")
              /\ cf'[t].ret = "false" =>
                   /\ hw_filters_container' = hw_filters_container
                   /\ \A w \in FilterWords :
                        _checkHWFilters(hw_filters_container', w)
                          = _checkHWFilters(hw_filters_container, w)
         /\ cf'[t].ret = "true" \/ pc'[t] = "cf" =>
              mode_ = "FilteredMode" /\ ~cf'[t].isnull]_vars

\* A call with a null rule vector has returned false in FilteredMode while
\* a rule that refuses frames is installed.
C13_Witness ==
    \E t \in Threads :
      /\ cf[t].ret = "false"
      /\ cf[t].isnull
      /\ mode_ = "FilteredMode"
      /\ hw_filters_container # << >>
      /\ \E w \in Words : ~_checkHWFilters(hw_filters_container, w)

\* C14: a thread that is in the middle of an operation that changes the
\* state of the interface (the loop of flush_tx or of poll-write, the
\* rewriting of the filter rules) holds the lock.
C14_MutationsUnderLock ==
    \A t \in Threads : pc[t] \in {"fl", "pw", "cf"} => lock = t

\* The rules a completed configureFilters call installs for configs.
NewFilters(configs) == [i \in 1..Len(configs) |-> MakeFilter(configs[i])]

\* C16: a frame from the bus that is read while a configureFilters call is
\* under way is accepted as the rules the call found decide, or as the
\* rules the call installs decide.
C16_FiltersReplacedAtomically ==
    [][\A t \in Threads :
         (/\ pc[t] = "cf"
          /\ sock_rx # << >>
          /\ sock_rx' = Tail(sock_rx)
          /\ ~Head(sock_rx).confirm)
         => LET can_id == Head(sock_rx).frame.can_id
                pushed == Len(rxlog') > Len(rxlog)
            IN  \/ pushed = _checkHWFilters(cf[t].old, can_id)
                \/ pushed = _checkHWFilters(NewFilters(cf[t].configs), can_id)]_vars

\* C15: the items in tx_queue have distinct sequence indices, and an item
\* pushed later has a higher index than one pushed before it.
C15_IndexUnderLock ==
    \A a, b \in tx_queue : a.uid < b.uid => a.index < b.index

\* C17: num_downs counts the times the interface was latched down: it is 1
\* when down is set and 0 when it is not.
C17_NumDownsCountsLatches ==
    stats.num_downs = IF down THEN 1 ELSE 0

Balance(st, q) ==
    st.tx_requests = st.tx_success + st.tx_rejected + st.tx_timedout + Cardinality(q)

\* C18: whenever the lock is free, tx_requests is the sum of tx_success,
\* tx_rejected, tx_timedout and the number of items in tx_queue; and a
\* step that adds to tx_overflow changes none of these.
C18_CounterConservation ==
    /\ [](lock = 0 => Balance(stats, tx_queue))
    /\ [][stats'.tx_overflow # stats.tx_overflow =>
            /\ stats'.tx_overflow = stats.tx_overflow + 1
            /\ tx_queue' = tx_queue
            /\ stats'.tx_requests = stats.tx_requests
            /\ Outcomes(stats') = Outcomes(stats)]_vars

\* With the lock free: one frame written, one rejected, one timed out and
\* one left in the queue by a would-block write.
C18_Witness ==
    /\ lock = 0
    /\ stats.tx_success >= 1
    /\ stats.tx_rejected + stats.tx_timedout >= 1
    /\ stats.tx_overflow >= 1
    /\ Cardinality(tx_queue) >= 1

\* C19: every item pushed into rx_queue with the loopback flag was read
\* from the echo of a frame that was sent with Loopback requested.
C19_LoopbackOnlyIfRequested ==
    \A i \in 1..Len(rxlog) : rxlog[i].loopback => rxlog[i].sent_loopback

(***************************************************************************)
(* Drain: one thread makes DrainSends send calls, another calls flush_tx   *)
(* again and again.  The interface is not down; its filter accepts CAN id  *)
(* 1 only.  The socket refuses at most MaxOverflow writes and accepts the  *)
(* others; the kernel echoes every written frame; the frames from the bus  *)
(* have other ids, so the filter refuses them; the frames sent have id 1,  *)
(* with and without Loopback, so some echoes are not in the pending set.   *)
(***************************************************************************)
DrainFilters == << MakeFilter([id |-> 1, mask |-> MaskExtID]) >>

InitDrain == InitWith({"FilteredMode"}, {DrainFilters}, {<< >>})

Producer(t) ==
    \/ SendLocked(t, {1}, {MaxTime})
    \/ PollWriteStep(t, {"full", "EAGAIN"}, MaxOverflow)

Flusher(t) ==
    \/ FlushTx(t)
    \/ FlushIter(t, 0)
    \/ PollWriteStep(t, {"full", "EAGAIN"}, MaxOverflow)

NextDrain ==
    \/ \E t \in {1} : SendPrep(t, DrainSends) \/ Producer(t)
    \/ \E t \in {2} : Flusher(t)
    \/ Echo
    \/ BusFrame(Ids \ {1})

\* A thread that can take a step takes one; the kernel echoes what was
\* written.
SpecDrain ==
    /\ InitDrain /\ [][NextDrain]_vars
    /\ WF_vars(Producer(1))
    /\ WF_vars(Flusher(2))
    /\ WF_vars(Echo)

\* C20: every flush_tx call returns, and from some point on tx_queue is
\* empty and frames_in_socket_tx_queue is 0.
C20_DrainLiveness ==
    /\ \A t \in Threads : (op[t] = "flush") ~> (op[t] = "none")
    /\ <>[](tx_queue = {} /\ frames_in_socket_tx_queue = 0)

\* All frames sent, written and confirmed after a refused write, with an
\* echo that was not pending and a frame from the bus that the filter
\* refused; the queue is empty and the socket queue free.
C20_Witness ==
    /\ AllIdle
    /\ tx_queue = {} /\ frames_in_socket_tx_queue = 0
    /\ stats.tx_requests = DrainSends
    /\ stats.tx_success = DrainSends /\ stats.tx_confirmed = DrainSends
    /\ stats.tx_overflow >= 1
    /\ LoopbackDelivered < stats.tx_confirmed
    /\ nlive >= 1 /\ sock_rx = << >>
    /\ \A i \in 1..Len(rxlog) : rxlog[i].loopback

====
